---- MODULE Spec2Model ----
(***************************************************************************)
(* Model of image-compressor (src/main.go): main partitions the file list  *)
(* over numThreads goroutines, each goroutine runs compressImages on its   *)
(* share in batches, failures are appended to the shared failedFiles under *)
(* the mutex mu, every goroutine adds its local byte total to the shared   *)
(* compressedTotalSize under mu, and main waits on the WaitGroup before it *)
(* writes the report.                                                      *)
(***************************************************************************)
EXTENDS Integers, Sequences, FiniteSets, TLC

\* ---------------------------------------------------------------- bounds
\* Largest file list and largest -t value of the concurrent specification.
MaxFiles == 4
MaxThreads == 2
\* Largest file list of the single-goroutine specification.
MaxShare == 5
\* Largest file list and largest -t value of the partition-only specification.
MaxPartFiles == 12
MaxPartThreads == 5
\* Largest file list and largest -t value of the specification with fairness.
MaxFairFiles == 3
MaxFairThreads == 2

\* Largest width and height, and largest -s value, of the images of the
\* resize specification.
MaxDim == 6
MaxPixelBudget == 12

\* Largest batch size the split of a share into batches is computed for.
MaxBatchSize == 6

\* The batch size of the model.
ScaledBatchSize == 2

\* const batchSize = 200, scaled down so that a share of the model is split
\* into more than one batch.
batchSize == ScaledBatchSize

\* const maxPixels = 12000000, the default of -s.
DefaultMaxPixels == 12000000

Threads == 1..(IF MaxThreads > MaxPartThreads THEN MaxThreads ELSE MaxPartThreads)
NoThread == 0

\* ------------------------------------------------------------- the paths
\* A path is a sequence of path elements.  The walk of the input directory
\* yields paths that extend inputDir by one distinct element each.
inputDir == <<0>>
PathOf(k) == inputDir \o <<k>>

IsPrefix(p, s) == Len(p) <= Len(s) /\ SubSeq(s, 1, Len(p)) = p

\* strings.TrimPrefix: s without the leading p when s starts with p, else s.
TrimPrefix(s, p) == IF IsPrefix(p, s) THEN SubSeq(s, Len(p) + 1, Len(s)) ELSE s

\* The size os.Stat reports for the output written for a path: a power of
\* two per file, so that a sum of sizes determines the set of files summed.
StatSize(path) == 2 ^ (path[Len(path)] - 1)

Min(a, b) == IF a < b THEN a ELSE b

\* compressedFolder := filepath.Join(outputDir, "compressed_files"), with
\* outputDir = inputPath unless -d is given; a directory once main is past
\* its os.MkdirAll.
compressedFolder == inputDir \o <<0>>

\* outputFile := filepath.Join(outputDir, relativePath) in compressImages,
\* whose outputDir is main's compressedFolder and whose inputDir is main's
\* inputPath.  Joining the empty relative path gives the folder itself.
OutputFile(path) == compressedFolder \o TrimPrefix(path, inputDir)

\* What can happen to one file when compressImages reaches it.
\*   statFail    os.Stat(path) fails (the source vanished)
\*   filtered    the source exists but is a directory or has no .jpg/.png suffix
\*   decodeFail  compressImage fails before os.Create (open, decode, watermark, create)
\*   encodeFail  compressImage fails after os.Create (unsupported format, encode)
\*   ok          compressImage succeeds and the output file can be statted
\*   okNoStat    compressImage succeeds and the stat of the output file fails
Kinds == {"statFail", "filtered", "decodeFail", "encodeFail", "ok", "okNoStat"}
FailKinds == {"statFail", "decodeFail", "encodeFail"}
OkKinds == {"ok", "okNoStat"}

\* The kinds of outcome in which compressImage got past os.Create(outputPath):
\* the output file exists from then on, compressImage has no os.Remove on
\* its error returns.
OutputCreated(kind) == kind \in {"encodeFail", "ok", "okNoStat"}

\* What can happen to the file at path: os.Create(outputPath) fails when
\* outputPath is a directory, so no outcome past os.Create is possible for a
\* path whose destination is compressedFolder itself.
KindsFor(path) ==
    IF OutputFile(path) = compressedFolder
       THEN {kind \in Kinds : ~OutputCreated(kind)}
       ELSE Kinds

\* ---------------------------------------------------------- the resize
NoImage == [stage |-> "none"]

\* The image image.Decode returned, with the maxPixels compressImage is given.
Decoded(w, h, mp) ==
    [stage |-> "decoded", width |-> w, height |-> h, maxPixels |-> mp,
     newWidth |-> 0, newHeight |-> 0, outWidth |-> 0, outHeight |-> 0]

\* uint(float64(d) * scaleFactor) with scaleFactor = maxPixels/totalPixels.
\* totalPixels is d times the other dimension, so before rounding the
\* product is maxPixels / (totalPixels / d); it is written that way to keep
\* the arithmetic within the integers of the model.  The conversion to uint
\* truncates.  The two float64 roundings can leave a product that is a whole
\* number just below it, and the truncation then gives one less.
ScaledDims(d, total, mp) ==
    LET other == total \div d
        q == mp \div other
    IN  IF mp % other = 0 /\ q > 0 THEN {q, q - 1} ELSE {q}

\* The bounds of resize.Resize(nw, nh, img, resize.Lanczos3) for an image of
\* w by h (github.com/nfnt/resize): the given dimensions; a dimension given
\* as 0 is derived from the other one so as to keep the aspect ratio,
\* uint(0.7 + w / (h / nh)); with both given as 0 the scale is 1 and the
\* image is returned as it is.
ResizeDims(nw, nh, w, h) ==
    IF nw = 0 /\ nh = 0 THEN <<w, h>>
    ELSE IF nw = 0 THEN <<(10 * w * nh + 7 * h) \div (10 * h), nh>>
    ELSE IF nh = 0 THEN <<nw, (10 * h * nw + 7 * w) \div (10 * w)>>
    ELSE <<nw, nh>>

VARIABLES
    filePaths,            \* main: the file list
    numThreads,           \* main: -t
    pcMain,               \* main: position
    li,                   \* main: the loop variable i of the launch loop
    wg,                   \* main: the WaitGroup counter
    mu,                   \* main: the mutex, NoThread or the goroutine that holds it
    failedFiles,          \* main: the shared list of failed relative paths
    compressedTotalSize,  \* main: the shared total of output bytes
    report,               \* what writeReport was given, <<>> before it is called
    pc,                   \* per goroutine: position
    files,                \* per goroutine: its share filePaths[start:end]
    filesPerBatch,        \* per goroutine: compressImages' filesPerBatch
    bi,                   \* per goroutine: the outer loop variable i
    bj,                   \* per goroutine: index in files of the next file of the batch
    size,                 \* per goroutine: compressImages' local compressedTotalSize
    bar,                  \* per goroutine: the count of its progress bar
    ldFailed,             \* per goroutine: the value of failedFiles it loaded
    ldTotal,              \* per goroutine: the value of compressedTotalSize it loaded
    outcome,              \* per file index: "pending" or what happened to the file
    img                   \* compressImage: the image it works on, NoImage outside it

mainVars == <<img, filePaths, numThreads, pcMain, li, wg, report>>
aggVars == <<mu, failedFiles, compressedTotalSize>>
workerVars == <<pc, files, filesPerBatch, bi, bj, size, bar, ldFailed, ldTotal, outcome>>
vars == <<filePaths, numThreads, pcMain, li, wg, mu, failedFiles,
          compressedTotalSize, report, pc, files, filesPerBatch, bi, bj,
          size, bar, ldFailed, ldTotal, outcome, img>>

\* ------------------------------------------------------------------ Init
InitList(fs, t) ==
    /\ filePaths = fs
    /\ numThreads = t
    /\ pcMain = "mkdir"
    /\ li = 0
    /\ wg = 0
    /\ mu = NoThread
    /\ failedFiles = <<>>
    /\ compressedTotalSize = 0
    /\ report = <<>>
    /\ pc = [w \in Threads |-> "idle"]
    /\ files = [w \in Threads |-> <<>>]
    /\ filesPerBatch = [w \in Threads |-> 0]
    /\ bi = [w \in Threads |-> 0]
    /\ bj = [w \in Threads |-> 0]
    /\ size = [w \in Threads |-> 0]
    /\ bar = [w \in Threads |-> 0]
    /\ ldFailed = [w \in Threads |-> <<>>]
    /\ ldTotal = [w \in Threads |-> 0]
    /\ outcome = [k \in 1..Len(fs) |-> "pending"]

\* The path argument is a directory: the list is what the walk found in it.
InitWith(n, t) == InitList([k \in 1..n |-> PathOf(k)], t) /\ img = NoImage

\* The path argument is a file: filePaths = []string{inputPath}, and
\* inputPath is also the inputDir that compressImages is given.
InitSingleFile(t) == InitList(<<inputDir>>, t) /\ img = NoImage

Init == \E n \in 0..MaxFiles, t \in 1..MaxThreads : InitWith(n, t)

\* One goroutine with the whole list as its share.
InitOneShare == \E n \in 0..MaxShare : InitWith(n, 1)

\* The inputs of the runs that are checked for completion: a directory of up
\* to MaxFairFiles files, or a single file.
InitFair ==
    \E t \in 1..MaxFairThreads :
        \/ \E n \in 0..MaxFairFiles : InitWith(n, t)
        \/ InitSingleFile(t)

\* The inputs of the partition loop.
InitPartition == \E n \in 0..MaxPartFiles, t \in 1..MaxPartThreads : InitWith(n, t)

\* The images the resize is checked on: every width, height and -s value up
\* to the bounds, and an image of 4000 by 4000 with the default -s.
InitResize ==
    /\ InitList(<<>>, 1)
    /\ \/ \E w, h \in 1..MaxDim, mp \in 1..MaxPixelBudget : img = Decoded(w, h, mp)
       \/ img = Decoded(4000, 4000, DefaultMaxPixels)

\* ------------------------------------------------------- compressImage
\* The if totalPixels > maxPixels of compressImage: the image resized to
\* newWidth by newHeight, or left as it is.  Two equal dimensions go through
\* the same float64 operations and come out equal.
ScaleImage ==
    /\ img.stage = "decoded"
    /\ LET totalPixels == img.width * img.height
       IN  IF totalPixels > img.maxPixels
              THEN \E nw \in ScaledDims(img.width, totalPixels, img.maxPixels),
                      nh \in ScaledDims(img.height, totalPixels, img.maxPixels) :
                       /\ img.width = img.height => nw = nh
                       /\ img' = [img EXCEPT
                                    !.stage = "scaled",
                                    !.newWidth = nw,
                                    !.newHeight = nh,
                                    !.outWidth = ResizeDims(nw, nh, img.width, img.height)[1],
                                    !.outHeight = ResizeDims(nw, nh, img.width, img.height)[2]]
              ELSE img' = [img EXCEPT
                             !.stage = "kept",
                             !.outWidth = img.width,
                             !.outHeight = img.height]
    /\ UNCHANGED <<filePaths, numThreads, pcMain, li, wg, report>>
    /\ UNCHANGED aggVars
    /\ UNCHANGED workerVars

\* ------------------------------------------------------------------ main
\* os.MkdirAll(compressedFolder): the run stops when it fails.
MkdirRoot ==
    /\ pcMain = "mkdir"
    /\ \E ok \in BOOLEAN : pcMain' = IF ok THEN "launch" ELSE "aborted"
    /\ UNCHANGED <<img, filePaths, numThreads, li, wg, report>>
    /\ UNCHANGED aggVars
    /\ UNCHANGED workerVars

\* Faulty variants of ChunkSize: the division rounded down, and the size of the
\* progress bars (len/numThreads + 1) used as the chunk size.
ChunkSizeFloor(n, t) == n \div t
ChunkSizePlusOne(n, t) == n \div t + 1

\* Faulty variant of ChunkSize: twice the rounded-up quotient.
ChunkSizeDouble(n, t) == 2 * ((n + t - 1) \div t)

\* chunkSize := (len(filePaths) + numThreads - 1) / numThreads
ChunkSize(n, t) == (n + t - 1) \div t
chunkSize == ChunkSize(Len(filePaths), numThreads)

\* Faulty variant of ShareStart: a share starts at the last file of the one
\* before it.
ShareStartOverlaps(i) == IF i = 0 THEN 0 ELSE i * chunkSize - 1

\* The maximum every progress bar is created with:
\* progressbar.NewOptions(len(filePaths)/numThreads+1, ...)
BarMaxOf(n, t) == n \div t + 1
BarMax == BarMaxOf(Len(filePaths), numThreads)

\* start and end of iteration i of the launch loop (0-based, end exclusive).
ShareStart(i) == i * chunkSize
ShareEnd(i) == Min(ShareStart(i) + chunkSize, Len(filePaths))

\* Faulty variant of Launches: a goroutine for every iteration.
LaunchesAlways(i) == TRUE

\* The guard of the launch: if start < end.
Launches(i) == ShareStart(i) < ShareEnd(i)

\* filePaths[start:end]
Slice(s, start, end) == SubSeq(s, start + 1, end)

\* One iteration of the launch loop: wg.Add(1) and the go statement for a
\* non-empty share, nothing for an empty one; then i++ and the loop test,
\* after which main is at wg.Wait() when i has reached numThreads.
LaunchStep ==
    /\ pcMain = "launch"
    /\ li < numThreads
    /\ \/ /\ Launches(li)
          /\ wg' = wg + 1
          /\ pc' = [pc EXCEPT ![li + 1] = "start"]
          /\ files' = [files EXCEPT ![li + 1] = Slice(filePaths, ShareStart(li), ShareEnd(li))]
       \/ /\ ~Launches(li)
          /\ UNCHANGED <<wg, pc, files>>
    /\ li' = li + 1
    /\ pcMain' = IF li + 1 < numThreads THEN "launch" ELSE "wait"
    /\ UNCHANGED <<img, filePaths, numThreads, report>>
    /\ UNCHANGED aggVars
    /\ UNCHANGED <<filesPerBatch, bi, bj, size, bar, ldFailed, ldTotal, outcome>>

\* Faulty variant of WaitReturns: main does not wait for the goroutines.
WaitReturnsAlways == TRUE

\* wg.Wait() returns when the counter is zero.
WaitReturns == wg = 0

Wait ==
    /\ pcMain = "wait"
    /\ WaitReturns
    /\ pcMain' = "report"
    /\ UNCHANGED <<img, filePaths, numThreads, li, wg, report>>
    /\ UNCHANGED aggVars
    /\ UNCHANGED workerVars

\* writeReport(..., totalFiles, ..., compressedTotalSize, ..., failedFiles)
WriteReport ==
    /\ pcMain = "report"
    /\ report' = <<[totalFiles |-> Len(filePaths),
                    compressedSize |-> compressedTotalSize,
                    failedFiles |-> failedFiles]>>
    /\ pcMain' = "done"
    /\ UNCHANGED <<img, filePaths, numThreads, li, wg>>
    /\ UNCHANGED aggVars
    /\ UNCHANGED workerVars

\* ------------------------------------------------------- compressImages
\* Entry of compressImages in goroutine w: the local total and filesPerBatch.
FilesPerBatchOf(fs, bs) == IF Len(fs) < bs THEN Len(fs) ELSE bs
FilesPerBatch(fs) == FilesPerBatchOf(fs, batchSize)

\* Faulty variant of BatchEndAt: the batch ends one file early.
BatchEndAtShort(i, perBatch, fs) == Min(i + perBatch - 1, Len(fs))

\* end := i + filesPerBatch; if end > len(files) { end = len(files) }
BatchEndAt(i, perBatch, fs) == Min(i + perBatch, Len(fs))
BatchEnd(w) == BatchEndAt(bi[w], filesPerBatch[w], files[w])

\* The batches files[i:end] of the outer loop from i on, in the order the
\* loop takes them.
RECURSIVE BatchesFrom(_, _, _)
BatchesFrom(i, perBatch, fs) ==
    IF i < Len(fs)
       THEN <<SubSeq(fs, i + 1, BatchEndAt(i, perBatch, fs))>>
                \o BatchesFrom(i + perBatch, perBatch, fs)
       ELSE <<>>

\* The outer loop test i < len(files) with i = b: the first file of the next
\* batch, or the return of compressImages and the mu.Lock() of the caller.
EnterBatch(w, b) ==
    /\ bi' = [bi EXCEPT ![w] = b]
    /\ bj' = [bj EXCEPT ![w] = b]
    /\ pc' = [pc EXCEPT ![w] = IF b < Len(files[w]) THEN "item" ELSE "lockSum"]

\* The goroutine starts: compressImages sets its local total and
\* filesPerBatch and enters the outer loop with i = 0.
Begin(w) ==
    /\ pc[w] = "start"
    /\ size' = [size EXCEPT ![w] = 0]
    /\ filesPerBatch' = [filesPerBatch EXCEPT ![w] = FilesPerBatch(files[w])]
    /\ EnterBatch(w, 0)
    /\ UNCHANGED mainVars
    /\ UNCHANGED aggVars
    /\ UNCHANGED <<files, bar, ldFailed, ldTotal, outcome>>

\* The file the inner loop is at, and its index in the file list.
CurPath(w) == files[w][bj[w] + 1]
IndexOf(path) == CHOOSE k \in 1..Len(filePaths) : filePaths[k] = path

\* Faulty variant of BarAdd: the bar advanced by 2.
BarAddTwo(b) == b + 2

\* bar.Add(1) after a successful compressImage.
BarAdd(b) == b + 1

\* The inner loop moves to the next file of the batch; after the last file
\* of the batch the outer loop does i += filesPerBatch and tests again.
AdvanceFrom(w) ==
    IF bj[w] + 1 >= BatchEnd(w)
       THEN EnterBatch(w, bi[w] + filesPerBatch[w])
       ELSE /\ bj' = [bj EXCEPT ![w] = bj[w] + 1]
            /\ pc' = [pc EXCEPT ![w] = "item"]
            /\ UNCHANGED bi

\* The kinds of outcome for which compressImages takes a branch that locks
\* mu and appends to failedFiles: the else of os.Stat and the else of
\* compressImage.  A filtered file takes neither.
RecordsFailure(kind) == kind \in FailKinds

\* relativePath := strings.TrimPrefix(path, inputDir)
RelativePath(path) == TrimPrefix(path, inputDir)

\* The body of the inner loop up to the point where it needs the mutex.
ProcessFile(w) ==
    /\ pc[w] = "item"
    /\ \E kind \in KindsFor(CurPath(w)) :
         /\ outcome' = [outcome EXCEPT ![IndexOf(CurPath(w))] = kind]
         /\ \/ /\ RecordsFailure(kind)
               /\ pc' = [pc EXCEPT ![w] = "lockFail"]
               /\ UNCHANGED <<bi, bj, bar, size>>
            \/ /\ kind = "filtered"
               /\ AdvanceFrom(w)
               /\ UNCHANGED <<bar, size>>
            \/ /\ kind = "ok"
               /\ bar' = [bar EXCEPT ![w] = BarAdd(bar[w])]
               /\ size' = [size EXCEPT ![w] = size[w] + StatSize(CurPath(w))]
               /\ AdvanceFrom(w)
            \/ /\ kind = "okNoStat"
               /\ bar' = [bar EXCEPT ![w] = BarAdd(bar[w])]
               /\ UNCHANGED size
               /\ AdvanceFrom(w)
    /\ UNCHANGED mainVars
    /\ UNCHANGED aggVars
    /\ UNCHANGED <<files, filesPerBatch, ldFailed, ldTotal>>

\* Faulty variant of CanLock: a mutex that never blocks.
CanLockAlways(w) == TRUE

\* mu.Lock() blocks until no goroutine holds the mutex.
CanLock(w) == mu = NoThread

\* mu.Lock(), and the read of the slice that
\* *failedFiles = append(*failedFiles, relativePath) starts with.
LockFail(w) ==
    /\ pc[w] = "lockFail"
    /\ CanLock(w)
    /\ mu' = w
    /\ ldFailed' = [ldFailed EXCEPT ![w] = failedFiles]
    /\ pc' = [pc EXCEPT ![w] = "appendFail"]
    /\ UNCHANGED mainVars
    /\ UNCHANGED <<failedFiles, compressedTotalSize>>
    /\ UNCHANGED <<files, filesPerBatch, bi, bj, size, bar, ldTotal, outcome>>

\* Faulty variant of AppendFail: compressImages returns after it has recorded a
\* failure.
AppendFailReturns(w) ==
    /\ pc[w] = "appendFail"
    /\ failedFiles' = Append(ldFailed[w], RelativePath(CurPath(w)))
    /\ ldFailed' = [ldFailed EXCEPT ![w] = <<>>]
    /\ mu' = NoThread
    /\ pc' = [pc EXCEPT ![w] = "lockSum"]
    /\ UNCHANGED mainVars
    /\ UNCHANGED compressedTotalSize
    /\ UNCHANGED <<files, filesPerBatch, bi, bj, size, bar, ldTotal, outcome>>

\* Faulty variant of AppendFail: the run stops at the first failure.
AppendFailFatal(w) ==
    /\ pc[w] = "appendFail"
    /\ failedFiles' = Append(ldFailed[w], RelativePath(CurPath(w)))
    /\ ldFailed' = [ldFailed EXCEPT ![w] = <<>>]
    /\ mu' = NoThread
    /\ pcMain' = "aborted"
    /\ UNCHANGED <<img, filePaths, numThreads, li, wg, report>>
    /\ UNCHANGED compressedTotalSize
    /\ UNCHANGED <<files, filesPerBatch, bi, bj, pc, size, bar, ldTotal, outcome>>

\* Faulty variant of AppendFail: the path put at the front of the list.
AppendFailPrepends(w) ==
    /\ pc[w] = "appendFail"
    /\ failedFiles' = <<RelativePath(CurPath(w))>> \o ldFailed[w]
    /\ ldFailed' = [ldFailed EXCEPT ![w] = <<>>]
    /\ mu' = NoThread
    /\ AdvanceFrom(w)
    /\ UNCHANGED mainVars
    /\ UNCHANGED compressedTotalSize
    /\ UNCHANGED <<files, filesPerBatch, size, bar, ldTotal, outcome>>

\* Faulty variant of AppendFail: the append without the mu.Unlock().
AppendFailKeepsLock(w) ==
    /\ pc[w] = "appendFail"
    /\ failedFiles' = Append(ldFailed[w], RelativePath(CurPath(w)))
    /\ ldFailed' = [ldFailed EXCEPT ![w] = <<>>]
    /\ AdvanceFrom(w)
    /\ UNCHANGED mainVars
    /\ UNCHANGED <<mu, compressedTotalSize>>
    /\ UNCHANGED <<files, filesPerBatch, size, bar, ldTotal, outcome>>

\* The write of the slice with the relative path appended, mu.Unlock(), and
\* on to the next file.
AppendFail(w) ==
    /\ pc[w] = "appendFail"
    /\ failedFiles' = Append(ldFailed[w], RelativePath(CurPath(w)))
    /\ ldFailed' = [ldFailed EXCEPT ![w] = <<>>]
    /\ mu' = NoThread
    /\ AdvanceFrom(w)
    /\ UNCHANGED mainVars
    /\ UNCHANGED compressedTotalSize
    /\ UNCHANGED <<files, filesPerBatch, size, bar, ldTotal, outcome>>

\* ------------------------------------------- the goroutine body in main
\* Faulty variant of LockSum: the total is read and written without mu.Lock().
LockSumNoAcquire(w) ==
    /\ pc[w] = "lockSum"
    /\ ldTotal' = [ldTotal EXCEPT ![w] = compressedTotalSize]
    /\ pc' = [pc EXCEPT ![w] = "addSum"]
    /\ UNCHANGED mainVars
    /\ UNCHANGED aggVars
    /\ UNCHANGED <<files, filesPerBatch, bi, bj, size, bar, ldFailed, outcome>>

\* size, _ := compressImages(...) has returned; mu.Lock(), and the read of
\* the total that compressedTotalSize += size starts with.
LockSum(w) ==
    /\ pc[w] = "lockSum"
    /\ CanLock(w)
    /\ mu' = w
    /\ ldTotal' = [ldTotal EXCEPT ![w] = compressedTotalSize]
    /\ pc' = [pc EXCEPT ![w] = "addSum"]
    /\ UNCHANGED mainVars
    /\ UNCHANGED <<failedFiles, compressedTotalSize>>
    /\ UNCHANGED <<files, filesPerBatch, bi, bj, size, bar, ldFailed, outcome>>

\* Faulty variant of AddSum: the addition without the mu.Unlock().
AddSumKeepsLock(w) ==
    /\ pc[w] = "addSum"
    /\ compressedTotalSize' = ldTotal[w] + size[w]
    /\ ldTotal' = [ldTotal EXCEPT ![w] = 0]
    /\ pc' = [pc EXCEPT ![w] = "wgDone"]
    /\ UNCHANGED mainVars
    /\ UNCHANGED <<mu, failedFiles>>
    /\ UNCHANGED <<files, filesPerBatch, bi, bj, size, bar, ldFailed, outcome>>

\* Faulty variant of AddSum: the total assigned, not added to.
AddSumOverwrites(w) ==
    /\ pc[w] = "addSum"
    /\ compressedTotalSize' = size[w]
    /\ ldTotal' = [ldTotal EXCEPT ![w] = 0]
    /\ mu' = NoThread
    /\ pc' = [pc EXCEPT ![w] = "wgDone"]
    /\ UNCHANGED mainVars
    /\ UNCHANGED failedFiles
    /\ UNCHANGED <<files, filesPerBatch, bi, bj, size, bar, ldFailed, outcome>>

\* The write of the total with the goroutine's size added, and mu.Unlock().
AddSum(w) ==
    /\ pc[w] = "addSum"
    /\ compressedTotalSize' = ldTotal[w] + size[w]
    /\ ldTotal' = [ldTotal EXCEPT ![w] = 0]
    /\ mu' = NoThread
    /\ pc' = [pc EXCEPT ![w] = "wgDone"]
    /\ UNCHANGED mainVars
    /\ UNCHANGED failedFiles
    /\ UNCHANGED <<files, filesPerBatch, bi, bj, size, bar, ldFailed, outcome>>

\* defer wg.Done()
WgDone(w) ==
    /\ pc[w] = "wgDone"
    /\ wg' = wg - 1
    /\ pc' = [pc EXCEPT ![w] = "done"]
    /\ UNCHANGED <<img, filePaths, numThreads, pcMain, li, report>>
    /\ UNCHANGED aggVars
    /\ UNCHANGED <<files, filesPerBatch, bi, bj, size, bar, ldFailed, ldTotal, outcome>>

Worker(w) ==
    \/ Begin(w)
    \/ ProcessFile(w)
    \/ LockFail(w)
    \/ AppendFail(w)
    \/ LockSum(w)
    \/ AddSum(w)
    \/ WgDone(w)

Main == MkdirRoot \/ LaunchStep \/ Wait \/ WriteReport

Next == Main \/ \E w \in Threads : Worker(w)

Spec == Init /\ [][Next]_vars

\* A single goroutine working through a share of up to MaxShare files.
SpecOneShare == InitOneShare /\ [][Next]_vars

\* The Go scheduler runs every goroutine that can run: main and each launched
\* goroutine take their next step when it stays possible.  A goroutine
\* blocked in mu.Lock() cannot run, so nothing is assumed for it while the
\* mutex is held.
Fairness == WF_vars(Main) /\ \A w \in Threads : WF_vars(Worker(w))

SpecFair == InitFair /\ [][Next]_vars /\ Fairness

\* compressImage's resize on its own.
NextResize == ScaleImage

SpecResize == InitResize /\ [][NextResize]_vars

\* The partition loop of main on its own, on longer lists and more threads.
NextPartition == MkdirRoot \/ LaunchStep

SpecPartition == InitPartition /\ [][NextPartition]_vars

\* =============================================================== claims
Range(s) == {s[i] : i \in 1..Len(s)}

\* The indexes in the file list of the files of goroutine w's share.
ShareIdx(w) == {k \in 1..Len(filePaths) : filePaths[k] \in Range(files[w])}

\* main is past wg.Wait().
Joined == pcMain \in {"report", "done"}

\* compressImages has returned in goroutine w.
Returned(w) == pc[w] \in {"lockSum", "addSum", "wgDone", "done"}

\* Goroutine w is between its mu.Lock() and its mu.Unlock().
InCriticalSection(w) ==
    pc[w] \in {"appendFail", "addSum"}

RECURSIVE SumOfSizes(_)
SumOfSizes(S) ==
    IF S = {} THEN 0
    ELSE LET k == CHOOSE x \in S : TRUE
         IN  StatSize(filePaths[k]) + SumOfSizes(S \ {k})

RECURSIVE SumOfLocal(_)
SumOfLocal(S) ==
    IF S = {} THEN 0
    ELSE LET w == CHOOSE x \in S : TRUE
         IN  size[w] + SumOfLocal(S \ {w})

Occurrences(s, x) == Cardinality({i \in 1..Len(s) : s[i] = x})

\* C1: once main is past wg.Wait(), whatever the interleaving of the
\* goroutines was, compressedTotalSize is the sum of the sizes os.Stat
\* reported for the outputs of the files that were compressed, and
\* failedFiles holds the relative path of every file that failed its stat
\* or its compressImage exactly once, and nothing else.
C1_NoLostUpdate ==
    Joined =>
        /\ compressedTotalSize = SumOfSizes({k \in DOMAIN outcome : outcome[k] = "ok"})
        /\ Len(failedFiles) = Cardinality({k \in DOMAIN outcome : outcome[k] \in FailKinds})
        /\ \A k \in DOMAIN outcome :
              outcome[k] \in FailKinds =>
                  Occurrences(failedFiles, TrimPrefix(filePaths[k], inputDir)) = 1

\* Two goroutines, each with one failure and one success, the second
\* goroutine's failure appended before the first's.
C1_Witness ==
    /\ pcMain = "done"
    /\ numThreads = 2
    /\ Len(filePaths) = 4
    /\ outcome = <<"statFail", "ok", "ok", "encodeFail">>
    /\ failedFiles = <<<<4>>, <<1>>>>
    /\ compressedTotalSize = 6

\* C2: when the run has completed, the failed files and the successes add
\* up to the file list: every file has exactly one recorded outcome.
C2_EveryFileHasOutcome ==
    pcMain = "done" =>
        Len(failedFiles) + Cardinality({k \in DOMAIN outcome : outcome[k] \in OkKinds})
            = Len(filePaths)

\* The shares of goroutines 1..i, concatenated in index order.
RECURSIVE ConcatShares(_)
ConcatShares(i) == IF i = 0 THEN <<>> ELSE ConcatShares(i - 1) \o files[i]

\* C3: when the launch loop has ended, the shares handed to the goroutines,
\* concatenated in index order, are the file list; while it runs, the
\* shares handed out so far are a prefix of the list.
C3_SharesCoverList ==
    /\ pcMain = "launch" =>
          /\ Len(ConcatShares(li)) <= Len(filePaths)
          /\ ConcatShares(li) = SubSeq(filePaths, 1, Len(ConcatShares(li)))
    /\ pcMain = "wait" => ConcatShares(numThreads) = filePaths

\* 7 files over 3 threads: shares of 3, 3 and 1.
C3_Witness ==
    /\ pcMain = "wait"
    /\ numThreads = 3
    /\ Len(filePaths) = 7
    /\ files[1] = <<PathOf(1), PathOf(2), PathOf(3)>>
    /\ files[3] = <<PathOf(7)>>

\* C4 as stated: when the launch loop has ended, the sizes of any two
\* shares differ by at most 1 (stated here for the non-empty shares only;
\* with the empty ones it fails the more).
C4_SharesDifferByAtMostOne ==
    pcMain = "wait" =>
        \A i, j \in 1..numThreads :
            (files[i] # <<>> /\ files[j] # <<>>) =>
                /\ Len(files[i]) - Len(files[j]) <= 1
                /\ Len(files[j]) - Len(files[i]) <= 1

\* C4 amended: no share is longer than ceil(len/numThreads), and every share
\* that is followed by a non-empty share has exactly that length; only the
\* last non-empty share may be shorter.
C4_OnlyLastShareShort ==
    pcMain = "wait" =>
        \A i \in 1..numThreads :
            /\ Len(files[i]) * numThreads < Len(filePaths) + numThreads
            /\ \A j \in 1..numThreads :
                  (i < j /\ files[j] # <<>>) =>
                      Len(files[i]) * numThreads >= Len(filePaths)

\* 10 files over 4 threads: shares of 3, 3, 3 and 1.
C4_Witness ==
    /\ pcMain = "wait"
    /\ numThreads = 4
    /\ Len(filePaths) = 10
    /\ Len(files[1]) = 3
    /\ Len(files[2]) = 3
    /\ Len(files[3]) = 3
    /\ Len(files[4]) = 1

\* C5: a goroutine between Lock and Unlock holds mu, so no two goroutines
\* are there together, and failedFiles and compressedTotalSize change only
\* in a step of the goroutine that holds mu.
C5_MutationsUnderLock ==
    /\ [](\A w \in Threads : InCriticalSection(w) => mu = w)
    /\ [](\A v, w \in Threads :
            (InCriticalSection(v) /\ InCriticalSection(w)) => v = w)
    /\ [][(failedFiles' # failedFiles \/ compressedTotalSize' # compressedTotalSize) =>
            /\ mu \in Threads
            /\ InCriticalSection(mu)
            /\ pc'[mu] # pc[mu]
            /\ \A v \in Threads \ {mu} : pc'[v] = pc[v]]_vars

\* One goroutine is about to write failedFiles while the other is blocked
\* in mu.Lock().
C5_Witness ==
    /\ pc[1] = "appendFail"
    /\ pc[2] = "lockFail"
    /\ mu = 1

\* C6: main is past wg.Wait() only when every goroutine it launched has
\* added its size to the total and called wg.Done(); from then on
\* failedFiles and compressedTotalSize do not change, and the report is
\* written from their final values.
C6_ReportAfterJoin ==
    /\ [](Joined =>
            /\ wg = 0
            /\ \A w \in Threads : pc[w] \in {"idle", "done"}
            /\ compressedTotalSize = SumOfLocal({w \in Threads : pc[w] = "done"}))
    /\ [](pcMain = "done" =>
            /\ report[1].compressedSize = compressedTotalSize
            /\ report[1].failedFiles = failedFiles)
    /\ [][Joined => UNCHANGED <<failedFiles, compressedTotalSize>>]_vars

\* The report of a run of two goroutines that both recorded a failure and
\* a size.
C6_Witness ==
    /\ pcMain = "done"
    /\ pc[1] = "done"
    /\ pc[2] = "done"
    /\ size[1] > 0
    /\ size[2] > 0
    /\ Len(report[1].failedFiles) = 2
    /\ report[1].compressedSize = size[1] + size[2]

\* C7: compressImages returns only when every file of the share has been
\* dealt with, whatever failed before; and a share of 5 files of which
\* only the third fails ends with one failed path and four successes.
C7_FailureDoesNotAbort ==
    /\ \A w \in Threads :
          Returned(w) => \A k \in ShareIdx(w) : outcome[k] # "pending"
    /\ \A w \in Threads :
          pc[w] = "item" =>
              \A k \in ShareIdx(w) : k < IndexOf(CurPath(w)) => outcome[k] # "pending"
    /\ ( /\ pcMain = "done"
         /\ Len(files[1]) = 5
         /\ outcome[3] \in FailKinds
         /\ \A k \in {1, 2, 4, 5} : outcome[k] \in OkKinds )
       => /\ failedFiles = <<TrimPrefix(filePaths[3], inputDir)>>
          /\ bar[1] = 4

\* The run of a share of 5 files whose third file failed to decode.
C7_Witness ==
    /\ pcMain = "done"
    /\ Len(files[1]) = 5
    /\ outcome = <<"ok", "ok", "decodeFail", "ok", "ok">>
    /\ failedFiles = <<<<3>>>>
    /\ bar[1] = 4

\* The least c with c * t >= n.
CeilDiv(n, t) == CHOOSE c \in 0..n : c * t >= n /\ (c = 0 \/ (c - 1) * t < n)

\* Share i (from 1) of the partition rule is non-empty.
NonEmptyShare(i) ==
    (i - 1) * CeilDiv(Len(filePaths), numThreads) < Len(filePaths)

\* C8: a goroutine has been launched for iteration i of the launch loop
\* exactly when share i of the partition rule is non-empty; with more
\* threads than files the trailing shares are empty and are not launched,
\* and wg counts the non-empty shares.
C8_LaunchedIffNonEmpty ==
    /\ \A i \in 1..numThreads :
          /\ i <= li => ((pc[i] # "idle") <=> NonEmptyShare(i))
          /\ i > li => pc[i] = "idle"
          /\ pc[i] # "idle" => files[i] # <<>>
          /\ (i <= li /\ i > Len(filePaths)) => (pc[i] = "idle" /\ files[i] = <<>>)
    /\ pcMain = "wait" =>
          /\ wg = Cardinality({i \in 1..numThreads : NonEmptyShare(i)})
          /\ Cardinality({i \in Threads : pc[i] # "idle"}) = wg

\* 5 threads for 2 files: two goroutines launched, three not.
C8_Witness ==
    /\ pcMain = "wait"
    /\ numThreads = 5
    /\ Len(filePaths) = 2
    /\ pc[1] = "start"
    /\ pc[2] = "start"
    /\ pc[3] = "idle"
    /\ pc[5] = "idle"
    /\ wg = 2

\* C9 as stated: a file whose stat failed or that did not pass the filter
\* (a directory, or no .jpg/.png suffix) is in failedFiles when the run ends.
C9_FilterFailureRecorded ==
    pcMain = "done" =>
        \A k \in DOMAIN outcome :
            outcome[k] \in {"statFail", "filtered"} =>
                TrimPrefix(filePaths[k], inputDir) \in Range(failedFiles)

\* The files of goroutine w's share that have been compressed so far.
SucceededSoFar(w) == Cardinality({k \in ShareIdx(w) : outcome[k] \in OkKinds})

\* C10: the count of a goroutine's progress bar is the number of files of
\* its share compressed so far, it is at most the length of the share, and
\* a step leaves it alone or adds exactly 1, the latter exactly when a file
\* of the share has just been compressed.
C10_ProgressCountsSuccesses ==
    /\ [](\A w \in Threads :
            /\ bar[w] = SucceededSoFar(w)
            /\ bar[w] <= Len(files[w]))
    /\ [][\A w \in Threads :
            /\ bar'[w] \in {bar[w], bar[w] + 1}
            /\ bar'[w] = bar[w] + 1 <=>
                  \E k \in ShareIdx(w) :
                      outcome[k] = "pending" /\ outcome'[k] \in OkKinds]_vars

\* Both goroutines are through; the first compressed one of its two files
\* and the second both of its files.
C10_Witness ==
    /\ pcMain = "done"
    /\ Len(filePaths) = 4
    /\ numThreads = 2
    /\ outcome[1] \in FailKinds
    /\ bar[1] = 1
    /\ bar[2] = 2

\* The files for which the run has left a file at the destination path.
OutputFiles == {k \in DOMAIN outcome : OutputCreated(outcome[k])}

\* C11 as stated: no file that is recorded as failed has a file at its
\* destination path; the destinations that exist are those of the files
\* that were compressed.
C11_NoOutputForFailure ==
    \A k \in DOMAIN outcome :
        k \in OutputFiles => outcome[k] \in OkKinds

\* C12: a run that is past the creation of compressed_files completes: every
\* goroutine that holds mu releases it, every launched goroutine reaches its
\* wg.Done(), wg.Wait() returns and the report is written; and the only
\* states without a next step are the end of the run and the abort at the
\* creation of compressed_files.
C12_RunCompletes ==
    /\ [](pcMain \notin {"done", "aborted"} => ENABLED Next)
    /\ (mu # NoThread) ~> (mu = NoThread)
    /\ (\E w \in Threads : pc[w] = "start") ~> (\A w \in Threads : pc[w] \in {"idle", "done"})
    /\ (pcMain = "launch") ~> (pcMain = "done" /\ report # <<>>)

\* The end of a run over shares of 2 and 1 files, the second shorter than a
\* batch, with a failure in each share.
C12_Witness ==
    /\ pcMain = "done"
    /\ report # <<>>
    /\ Len(files[1]) = 2
    /\ Len(files[2]) = 1
    /\ Len(files[2]) < batchSize
    /\ outcome = <<"ok", "decodeFail", "statFail">>

\* The path argument named a file, not a directory.
SingleFile == filePaths = <<inputDir>>

\* C13 as stated: when the path argument names one image file (it exists
\* and has a .jpg/.png suffix), the run ends with that file compressed: it
\* is counted on the progress bar and it is not in failedFiles.
C13_SingleFileCompressed ==
    (SingleFile /\ pcMain = "done" /\ outcome[1] \notin {"statFail", "filtered"}) =>
        /\ outcome[1] \in OkKinds
        /\ bar[1] = 1
        /\ failedFiles = <<>>

\* In a run on a single file the file is never compressed.
SingleFileNeverCompressed == SingleFile => outcome[1] \notin OkKinds

Abs(x) == IF x < 0 THEN 0 - x ELSE x
Max(a, b) == IF a < b THEN b ELSE a

\* The width and height of the output differ from a common scaling of the
\* input's by less than a pixel each.
AspectKept(i) ==
    Abs(i.outWidth * i.height - i.outHeight * i.width) <= Max(i.width, i.height)

\* C14 as stated: an image of more than maxPixels pixels comes out with at
\* most maxPixels pixels and its aspect ratio kept up to rounding, an image
\* of 4000 by 4000 with maxPixels 12000000 comes out square, and an image of
\* at most maxPixels pixels comes out with its dimensions unchanged.
C14_OutputWithinBudget ==
    /\ img.stage = "scaled" =>
          /\ img.outWidth * img.outHeight <= img.maxPixels
          /\ AspectKept(img)
          /\ img.width = img.height => img.outWidth = img.outHeight
    /\ img.stage = "kept" =>
          /\ img.width * img.height <= img.maxPixels
          /\ img.outWidth = img.width
          /\ img.outHeight = img.height

\* C17 as stated: the resized image is the largest one with the input's
\* aspect ratio that has at most maxPixels pixels: one more pixel in each
\* dimension would exceed maxPixels (stated for the images neither of whose
\* dimensions is scaled down to 0).
C17_LargestWithinBudget ==
    (img.stage = "scaled" /\ img.newWidth > 0 /\ img.newHeight > 0) =>
        (img.outWidth + 1) * (img.outHeight + 1) > img.maxPixels

\* C15: the run stops early only at the creation of compressed_files, and
\* then the launch loop has not started, no goroutine exists and no file has
\* an outcome; whatever fails for a file afterwards, the run has a next step
\* until the report is written, and the report carries the failed files.
C15_OnlyMkdirIsFatal ==
    /\ [](pcMain = "aborted" =>
            /\ li = 0
            /\ wg = 0
            /\ \A w \in Threads : pc[w] = "idle" /\ files[w] = <<>>
            /\ \A k \in DOMAIN outcome : outcome[k] = "pending"
            /\ failedFiles = <<>>
            /\ report = <<>>)
    /\ [][pcMain' = "aborted" => pcMain \in {"mkdir", "aborted"}]_vars
    /\ []((\E k \in DOMAIN outcome : outcome[k] \in FailKinds) =>
            (pcMain = "done" \/ ENABLED Next))
    /\ [](pcMain = "done" =>
            /\ Len(report) = 1
            /\ \A k \in DOMAIN outcome :
                  outcome[k] \in FailKinds =>
                      RelativePath(filePaths[k]) \in Range(report[1].failedFiles))

\* The creation of compressed_files failed for a list of 3 files and 2
\* threads.
C15_Witness ==
    /\ pcMain = "aborted"
    /\ Len(filePaths) = 3
    /\ numThreads = 2
    /\ li = 0

\* The sizes of the outputs of the files of goroutine w's share that have
\* been compressed and statted so far.
CompletedBytes(w) == SumOfSizes({k \in ShareIdx(w) : outcome[k] = "ok"})

\* C16 as stated: while a goroutine is at a later file of its share, the
\* shared compressedTotalSize includes the sizes of the files the goroutine
\* has compressed so far.
C16_TotalIncludesCompleted ==
    \A w \in Threads :
        pc[w] = "item" => compressedTotalSize >= CompletedBytes(w)

\* C16 amended: the sizes of the files a goroutine has compressed are in the
\* local total of its compressImages as soon as it moves on; the shared
\* compressedTotalSize is the sum of the local totals of the goroutines
\* whose compressImages has returned and that have added theirs, and it
\* changes only by one such addition, in the step that releases mu.
C16_TotalMergedOnReturn ==
    /\ [](\A w \in Threads : size[w] = CompletedBytes(w))
    /\ [](compressedTotalSize = SumOfLocal({w \in Threads : pc[w] \in {"wgDone", "done"}}))
    /\ [][compressedTotalSize' # compressedTotalSize =>
            \E w \in Threads :
                /\ pc[w] = "addSum"
                /\ pc'[w] = "wgDone"
                /\ mu = w
                /\ mu' = NoThread
                /\ compressedTotalSize' = compressedTotalSize + size[w]]_vars

\* The first goroutine has compressed its first file and is at its second,
\* the shared total holds only what the second goroutine added on return.
C16_Witness ==
    /\ Len(filePaths) = 3
    /\ pc[1] = "item"
    /\ outcome[1] = "ok"
    /\ size[1] = StatSize(filePaths[1])
    /\ pc[2] = "done"
    /\ outcome[3] = "ok"
    /\ compressedTotalSize = StatSize(filePaths[3])

RECURSIVE Flatten(_)
Flatten(ss) == IF ss = <<>> THEN <<>> ELSE ss[1] \o Flatten(SubSeq(ss, 2, Len(ss)))

\* The position in the file list of the j-th file of goroutine w's share.
ShareItem(w, j) == IndexOf(files[w][j])

\* The number of files of goroutine w's share that have an outcome.
ProcessedCount(w) == Cardinality({k \in ShareIdx(w) : outcome[k] # "pending"})

\* C18: for every batch size from 1 up the batches of a share are its
\* consecutive pieces: each but the last has the batch size, the last is not
\* empty, and joined in order they are the share.  The files a goroutine has
\* dealt with are always the first so many of its share, the batch it is in
\* holds the file it is at, and a step deals with at most one file, the
\* next of the share: the order is that of a loop over the share.
C18_BatchingInvisible ==
    /\ [](\A w \in Threads : \A bs \in 1..MaxBatchSize :
            LET B == BatchesFrom(0, FilesPerBatchOf(files[w], bs), files[w])
            IN  /\ Flatten(B) = files[w]
                /\ \A b \in 1..Len(B) :
                      /\ b < Len(B) => Len(B[b]) = bs
                      /\ Len(B[b]) >= 1
                      /\ Len(B[b]) <= bs)
    /\ [](\A w \in Threads :
            /\ \A j \in 1..Len(files[w]) :
                  (outcome[ShareItem(w, j)] # "pending") <=> (j <= ProcessedCount(w))
            /\ pc[w] = "item" =>
                  /\ bj[w] = ProcessedCount(w)
                  /\ bi[w] <= bj[w]
                  /\ bj[w] < BatchEnd(w)
                  /\ bi[w] % batchSize = 0
            /\ Returned(w) => ProcessedCount(w) = Len(files[w]))
    /\ [][\A w \in Threads : \A j \in 1..Len(files[w]) :
            outcome'[ShareItem(w, j)] # outcome[ShareItem(w, j)] =>
                /\ outcome[ShareItem(w, j)] = "pending"
                /\ j = ProcessedCount(w) + 1
                /\ ProcessedCount(w)' = j]_vars

\* A share of 5 files in batches of 2, 2 and 1: the goroutine is at the only
\* file of the last batch.
C18_Witness ==
    /\ Len(files[1]) = 5
    /\ filesPerBatch[1] = 2
    /\ pc[1] = "item"
    /\ bi[1] = 4
    /\ bj[1] = 4
    /\ BatchEnd(1) = 5
    /\ ProcessedCount(1) = 4

\* What goroutine w's own steps change apart from the shared variables: its
\* position, its counters, its progress bar and the outcomes of its files.
OwnState(w) ==
    <<pc[w], bi[w], bj[w], size[w], bar[w], [k \in ShareIdx(w) |-> outcome[k]]>>

\* C19: the goroutine that holds mu is at the one write its Lock is for,
\* never in the loop body that stats, creates directories and calls
\* compressImage, and never at a Lock; while it holds mu it takes no step
\* but the one that makes that write and releases mu, and that step appends
\* one path to failedFiles or adds one size to compressedTotalSize, not
\* both, and gives no file an outcome and moves no progress bar.
C19_CriticalSectionIsOneUpdate ==
    /\ [](\A w \in Threads :
            mu = w => /\ pc[w] \in {"appendFail", "addSum"}
                      /\ pc[w] \notin {"item", "lockFail", "lockSum"})
    /\ [][\A w \in Threads :
            mu = w =>
                \/ /\ mu' = w
                   /\ OwnState(w)' = OwnState(w)
                   /\ failedFiles' = failedFiles
                   /\ compressedTotalSize' = compressedTotalSize
                \/ /\ mu' = NoThread
                   /\ outcome' = outcome
                   /\ bar' = bar
                   /\ size' = size
                   /\ \/ /\ pc[w] = "appendFail"
                         /\ failedFiles' = Append(failedFiles, RelativePath(CurPath(w)))
                         /\ compressedTotalSize' = compressedTotalSize
                      \/ /\ pc[w] = "addSum"
                         /\ failedFiles' = failedFiles
                         /\ compressedTotalSize' = compressedTotalSize + size[w]]_vars

\* The first goroutine holds mu to add its size to the total while the
\* second waits at its Lock with a failed file to record.
C19_Witness ==
    /\ mu = 1
    /\ pc[1] = "addSum"
    /\ size[1] > 0
    /\ pc[2] = "lockFail"
    /\ failedFiles = <<>>

\* Goroutine w has been launched.
Launched(w) == pc[w] # "idle"

\* The destination paths of the files of goroutine w's share.
Destinations(w) == {OutputFile(files[w][j]) : j \in 1..Len(files[w])}

\* C20: the shares of two launched goroutines are slices of the file list
\* over index ranges that do not meet, so no file is in two shares and no
\* destination path belongs to two shares; a file gets its outcome in a step
\* of the goroutine whose share holds it, while that goroutine is at that
\* file, and the step leaves every other goroutine's position, counters
\* and progress bar alone.
C20_WorkersDisjoint ==
    /\ [](\A v, w \in Threads :
            (v < w /\ Launched(v) /\ Launched(w)) =>
                /\ files[v] = Slice(filePaths, ShareStart(v - 1), ShareEnd(v - 1))
                /\ files[w] = Slice(filePaths, ShareStart(w - 1), ShareEnd(w - 1))
                /\ ShareEnd(v - 1) <= ShareStart(w - 1)
                /\ ShareIdx(v) \cap ShareIdx(w) = {}
                /\ Destinations(v) \cap Destinations(w) = {})
    /\ [](\A w \in Threads :
            Cardinality(Destinations(w)) = Len(files[w]))
    /\ [][\A k \in DOMAIN outcome :
            outcome'[k] # outcome[k] =>
                \E w \in Threads :
                    /\ k \in ShareIdx(w)
                    /\ pc[w] = "item"
                    /\ CurPath(w) = filePaths[k]
                    /\ \A v \in Threads \ {w} : OwnState(v)' = OwnState(v)]_vars
    /\ [][\A w \in Threads :
            bar'[w] # bar[w] =>
                \E k \in ShareIdx(w) : outcome'[k] # outcome[k]]_vars

\* Two goroutines in their loops at the same time, the first at the second
\* file of its share and the second at its only file.
C20_Witness ==
    /\ numThreads = 2
    /\ Len(filePaths) = 3
    /\ pc[1] = "item"
    /\ pc[2] = "item"
    /\ CurPath(1) = PathOf(2)
    /\ CurPath(2) = PathOf(3)
    /\ bar[1] = 1

\* The relative paths of the files of goroutine w's share.
ShareRelPaths(w) == {RelativePath(files[w][j]) : j \in 1..Len(files[w])}

\* The entries of failedFiles that are files of goroutine w's share, in the
\* order they have in failedFiles.
FailedOf(w) == SelectSeq(failedFiles, LAMBDA x : x \in ShareRelPaths(w))

\* The place in goroutine w's share of the file with relative path x.
PlaceInShare(w, x) == CHOOSE j \in 1..Len(files[w]) : RelativePath(files[w][j]) = x

\* C21: whatever the other goroutines have appended in between, the entries
\* of failedFiles that are files of one goroutine's share stand in the order
\* of the share, none twice, and they are the files of the share that have
\* failed and whose append is done.
C21_FailedInShareOrder ==
    \A w \in Threads :
        /\ \A a, b \in 1..Len(FailedOf(w)) :
              a < b => PlaceInShare(w, FailedOf(w)[a]) < PlaceInShare(w, FailedOf(w)[b])
        /\ \A a \in 1..Len(FailedOf(w)) :
              outcome[ShareItem(w, PlaceInShare(w, FailedOf(w)[a]))] \in FailKinds
        /\ Returned(w) =>
              Len(FailedOf(w)) = Cardinality({k \in ShareIdx(w) : outcome[k] \in FailKinds})

\* Both files of the first goroutine's share failed, and the failure of the
\* second goroutine's file was appended between them.
C21_Witness ==
    /\ pcMain = "done"
    /\ Len(files[1]) = 2
    /\ Len(files[2]) = 1
    /\ failedFiles = <<RelativePath(PathOf(1)), RelativePath(PathOf(3)), RelativePath(PathOf(2))>>

\* C22: the maximum of the progress bars, len/numThreads + 1 rounded down,
\* is at least the rounded-up quotient that is the chunk size, for every
\* length and thread count; no share is longer than the chunk size, so no
\* share is longer than the maximum of its bar, and the count of a bar never
\* exceeds the maximum.
C22_BarHoldsShare ==
    /\ \A n \in 0..MaxPartFiles, t \in 1..MaxPartThreads :
          /\ ChunkSize(n, t) = CeilDiv(n, t)
          /\ ChunkSize(n, t) <= BarMaxOf(n, t)
    /\ \A w \in Threads :
          /\ Len(files[w]) <= chunkSize
          /\ Len(files[w]) <= BarMax
          /\ bar[w] <= BarMax

\* 3 files over 2 threads: bars of maximum 2, and the first goroutine has
\* compressed both files of its share.
C22_Witness ==
    /\ Len(filePaths) = 3
    /\ numThreads = 2
    /\ BarMax = 2
    /\ Len(files[1]) = 2
    /\ bar[1] = 2
    /\ pc[1] = "done"

====
